---- MODULE Spec2Model ----
(***************************************************************************)
(* Model of the vibe-check API server (src/src/App.tsx, lines 285-489):    *)
(* the result sanitizer, the URL normalizer, the screenshot capturer and   *)
(* the POST /api/analyze request handler.                                  *)
(*                                                                         *)
(* JSON values are encoded as tagged records so that values of different   *)
(* JavaScript types can be compared.  A scalar is [t |-> tag, n |-> Int]:  *)
(*   "absent"  property not present / undefined                            *)
(*   "null"    null                                                        *)
(*   "bool"    n = 1 for true, n = 0 for false                             *)
(*   "num"     a finite number, n is the value in tenths (76 is 7.6)       *)
(*   "nan"     NaN                                                         *)
(*   "inf"     n = 1 for +Infinity, n = -1 for -Infinity (JSON 1e999)      *)
(*   "str"     a string, n is its length (n = 0 is the empty string)       *)
(*   "obj"     any other object                                            *)
(***************************************************************************)
EXTENDS Integers, Sequences, FiniteSets, TLC

VARIABLES
    apiKey,     \* TRUE when OPENROUTER_API_KEY is set in the environment
    requests,   \* per POST /api/analyze request: the handler's position and locals
    health,     \* the answer to a GET /api/health made in the current state, if any
    urlIn,      \* normalizer harness: the url property of the request body
    urlOut,     \* normalizer harness: the outcome of validation and normalization
    urlDone,    \* normalizer harness: TRUE once the url has been validated
    sanIn,      \* sanitizer harness: the parsed object handed to sanitizeResult
    sanOut,     \* sanitizer harness: the object sanitizeResult returned
    sanDone,    \* sanitizer harness: TRUE once sanitizeResult has been applied
    sanTwice,   \* sanitizer harness: what sanitizeResult returned for sanOut, if applied
    ui          \* the App component: its state hooks and the position of handleSubmit

sanVars == <<sanIn, sanOut, sanDone, sanTwice>>

urlVars == <<urlIn, urlOut, urlDone>>

srvVars == <<apiKey, requests, health>>

uiVars == <<ui>>

vars == <<srvVars, sanVars, urlVars, uiVars>>

----------------------------------------------------------------------------
(* Bounds *)

\* longest aiSlopSignals list handed to the sanitizer
MaxSignals == 7

\* largest magnitude of a finite score, in units (scores range over tenths)
MaxScore == 12

\* longest url string, in chunks, handed to the normalizer
MaxUrlLen == 5

\* tallest page, in scroll steps
MaxSteps == 2

\* longest model text, in chunks
MaxTextLen == 4

----------------------------------------------------------------------------
(* JSON value encoding *)

Sc(tag, num) == [t |-> tag, n |-> num]

Absent == Sc("absent", 0)

ScoreKeys == {"palette", "typography", "layout", "originality", "overallVibe"}

Min(a, b) == IF a < b THEN a ELSE b

Max(a, b) == IF a > b THEN a ELSE b

SeqsUpTo(S, n) == UNION {[1..k -> S] : k \in 0..n}

\* the whole array
SliceAll(s, k) == s

\* the slice started one element late
SliceFromOne(s, k) == SubSeq(s, 2, Min(Len(s), k + 1))

\* slice(0, k) of an array
Slice(s, k) == SubSeq(s, 1, Min(Len(s), k))

----------------------------------------------------------------------------
(* Result sanitizer *)

SignalCap == 6

\* Number.isFinite: true only for values of type number that are finite
IsFiniteNumber(v) == v.t = "num"

\* Math.round on a value given in tenths: floor(x + 0.5)
MathRound(n) == (n + 5) \div 10

\* the lower clamp left out
clampScoreNoFloor(value) ==
    IF ~IsFiniteNumber(value) THEN 1
    ELSE Min(10, MathRound(value.n))

clampScore(value) ==
    IF ~IsFiniteNumber(value) THEN 1
    ELSE Min(10, Max(1, MathRound(value.n)))

\* Boolean(x)
\* only the value true counted as set
ToBooleanStrict(v) == v.t = "bool" /\ v.n = 1

\* Boolean(v): false for undefined, null, false, 0, NaN and "", true otherwise
ToBoolean(v) ==
    CASE v.t = "absent" -> FALSE
      [] v.t = "null"   -> FALSE
      [] v.t = "bool"   -> v.n = 1
      [] v.t = "num"    -> v.n # 0
      [] v.t = "nan"    -> FALSE
      [] v.t = "str"    -> v.n # 0
      [] OTHER          -> TRUE

\* raw.scores?.key : undefined when scores is absent or null, the property
\* when scores is an object, undefined for a property of a primitive
ScoreOf(raw, key) ==
    IF raw.scores.t = "obj" THEN raw.scores.rec[key] ELSE Absent

sanitizeResult(raw) ==
    [raw EXCEPT
        !.scores = [t |-> "obj",
                    rec |-> [k \in ScoreKeys |-> Sc("num", 10 * clampScore(ScoreOf(raw, k)))]],
        !.aiSlopDetected = Sc("bool", IF ToBoolean(raw.aiSlopDetected) THEN 1 ELSE 0),
        !.aiSlopSignals = IF raw.aiSlopSignals.t = "list"
                          THEN [t |-> "list", items |-> Slice(raw.aiSlopSignals.items, SignalCap)]
                          ELSE [t |-> "list", items |-> <<>>]]

----------------------------------------------------------------------------
(* Parsed objects handed to the sanitizer *)

NumVals == {Sc("num", n) : n \in (-10 * MaxScore)..(10 * MaxScore)} \cup {Sc("num", 990)}

ScoreVals ==
    NumVals \cup {Absent, Sc("null", 0), Sc("nan", 0), Sc("inf", 1), Sc("inf", -1),
                  Sc("str", 3), Sc("str", 1), Sc("bool", 1)}

\* a string, a number, or nothing where a string is expected
TextVals == {Sc("str", 5), Sc("str", 0), Sc("num", 30), Absent, Sc("null", 0)}

FlagVals ==
    {Sc("bool", 1), Sc("bool", 0), Absent, Sc("null", 0), Sc("num", 0), Sc("num", 10),
     Sc("nan", 0), Sc("str", 0), Sc("str", 3), Sc("obj", 0)}

SignalItems == {Sc("str", 4), Sc("num", 20)}

SignalVals ==
    {[t |-> "list", items |-> s] : s \in SeqsUpTo(SignalItems, MaxSignals)}
    \cup {[t |-> tag, items |-> <<>>] : tag \in {"absent", "null", "str", "obj"}}

\* a scores field: absent, null, a primitive, or an object in which one key
\* holds v and the other four hold w
ScoresVals ==
    {[t |-> "obj", rec |-> [k \in ScoreKeys |-> IF k = k0 THEN v ELSE w]] :
        k0 \in ScoreKeys, v \in ScoreVals, w \in {Absent, Sc("num", 70), Sc("str", 3)}}
    \cup {[t |-> tag, rec |-> [k \in ScoreKeys |-> Absent]] : tag \in {"absent", "null", "str"}}

RoastsVals ==
    {[t |-> "obj", rec |-> [k \in ScoreKeys |-> IF k = k0 THEN v ELSE Sc("str", 5)]] :
        k0 \in ScoreKeys, v \in TextVals}
    \cup {[t |-> tag, rec |-> [k \in ScoreKeys |-> Absent]] : tag \in {"absent", "null", "str"}}

\* the object the prompt asks for
WellFormed ==
    [verdict |-> Sc("str", 5),
     scores |-> [t |-> "obj", rec |-> [k \in ScoreKeys |-> Sc("num", 70)]],
     aiSlopDetected |-> Sc("bool", 1),
     aiSlopSignals |-> [t |-> "list", items |-> <<Sc("str", 4)>>],
     categoryRoasts |-> [t |-> "obj", rec |-> [k \in ScoreKeys |-> Sc("str", 5)]],
     overallAssessment |-> Sc("str", 5)]

\* the object {}
EmptyObject ==
    [verdict |-> Absent,
     scores |-> [t |-> "absent", rec |-> [k \in ScoreKeys |-> Absent]],
     aiSlopDetected |-> Absent,
     aiSlopSignals |-> [t |-> "absent", items |-> <<>>],
     categoryRoasts |-> [t |-> "absent", rec |-> [k \in ScoreKeys |-> Absent]],
     overallAssessment |-> Absent]

\* every object that differs from one of the two base objects in one field
RawObjects ==
    UNION {   {[b EXCEPT !.scores = v] : v \in ScoresVals}
         \cup {[b EXCEPT !.aiSlopDetected = v] : v \in FlagVals}
         \cup {[b EXCEPT !.aiSlopSignals = v] : v \in SignalVals}
         \cup {[b EXCEPT !.categoryRoasts = v] : v \in RoastsVals}
         \cup {[b EXCEPT !.verdict = v] : v \in TextVals}
         \cup {[b EXCEPT !.overallAssessment = v] : v \in TextVals}
         : b \in {WellFormed, EmptyObject}}

----------------------------------------------------------------------------
(* URL normalizer *)

(* A url string is a sequence of chunks; its text is their concatenation.   *)
(* Only the chunk "http" begins with the letters http, so the text starts   *)
(* with "http" exactly when the first chunk is "http".                      *)
UrlChunks == {"http", "s", "x", ":", "/", "a.b", " "}

\* the url property of a request body: absent, a non-string (n = 0 falsy,
\* n = 1 truthy) or a string
UrlVal(tag, num, str) == [t |-> tag, n |-> num, s |-> str]

\* url.startsWith('http')
StartsWithHttp(s) == Len(s) >= 1 /\ s[1] = "http"

HttpsPrefix == <<"http", "s", ":", "/", "/">>

\* !url
UrlFalsy(u) ==
    CASE u.t = "absent" -> TRUE
      [] u.t = "str"    -> u.s = <<>>
      [] OTHER          -> u.n = 0

\* the string handed to the URL constructor
Candidate(s) == IF StartsWithHttp(s) THEN s ELSE HttpsPrefix \o s

(* new URL(input) without a base, after the WHATWG URL parsing algorithm,   *)
(* restricted to the code points the chunks contain.                        *)

RECURSIVE StripLeft(_)
StripLeft(s) == IF s # <<>> /\ s[1] = " " THEN StripLeft(Tail(s)) ELSE s

RECURSIVE StripRight(_)
StripRight(s) ==
    IF s # <<>> /\ s[Len(s)] = " " THEN StripRight(SubSeq(s, 1, Len(s) - 1)) ELSE s

\* leading and trailing spaces are removed before parsing
Strip(s) == StripRight(StripLeft(s))

\* chunks made of scheme code points (ASCII alphanumerics, "+", "-", ".")
SchemeChunks == {"http", "s", "x", "a.b"}

\* number of leading chunks that can belong to a scheme
SchemeLen(s) ==
    CHOOSE n \in 0..Len(s) :
        /\ \A i \in 1..n : s[i] \in SchemeChunks
        /\ n < Len(s) => s[n + 1] \notin SchemeChunks

\* number of elements of s before the first occurrence of c (Len(s) if none)
IndexBefore(s, c) ==
    CHOOSE n \in 0..Len(s) :
        /\ \A i \in 1..n : s[i] # c
        /\ n < Len(s) => s[n + 1] = c

\* number of leading "/" chunks
SlashLen(s) ==
    CHOOSE n \in 0..Len(s) :
        /\ \A i \in 1..n : s[i] = "/"
        /\ n < Len(s) => s[n + 1] # "/"

Drop(s, n) == SubSeq(s, n + 1, Len(s))

SpecialSchemes == {<<"http">>, <<"http", "s">>}

\* host state and port state on an authority: a ":" needs a host before it
\* and only digits after it, a special scheme needs a host, and a space is
\* a forbidden host code point
AuthorityOK(auth, special) ==
    LET h    == IndexBefore(auth, ":")
        host == SubSeq(auth, 1, h)
    IN  /\ \A i \in 1..Len(host) : host[i] # " "
        /\ special => host # <<>>
        /\ h < Len(auth) => (host # <<>> /\ h + 1 = Len(auth))

Invalid == [ok |-> FALSE, scheme |-> <<>>, href |-> <<>>]

\* serialization of host and path: an empty port is dropped, a special url
\* has at least the path "/", a space in a path is percent-encoded
Encode(path) == [i \in 1..Len(path) |-> IF path[i] = " " THEN "%20" ELSE path[i]]

ParseURL(input) ==
    LET s      == Strip(input)
        n      == SchemeLen(s)
        scheme == SubSeq(s, 1, n)
        rest   == Drop(s, n + 1)
    IN  IF ~(n >= 1 /\ n < Len(s) /\ s[n + 1] = ":") THEN Invalid
        ELSE IF scheme \in SpecialSchemes THEN
            \* special authority ignore slashes state
            LET r    == Drop(rest, SlashLen(rest))
                a    == IndexBefore(r, "/")
                auth == SubSeq(r, 1, a)
                host == SubSeq(auth, 1, IndexBefore(auth, ":"))
                path == Drop(r, a)
            IN  IF ~AuthorityOK(auth, TRUE) THEN Invalid
                ELSE [ok |-> TRUE, scheme |-> scheme,
                      href |-> scheme \o <<":", "/", "/">> \o host
                               \o (IF path = <<>> THEN <<"/">> ELSE Encode(path))]
        ELSE IF SlashLen(rest) >= 2 THEN
            \* authority state of a non-special url
            LET r    == Drop(rest, 2)
                a    == IndexBefore(r, "/")
                auth == SubSeq(r, 1, a)
                host == SubSeq(auth, 1, IndexBefore(auth, ":"))
                path == Drop(r, a)
            IN  IF ~AuthorityOK(auth, FALSE) THEN Invalid
                ELSE [ok |-> TRUE, scheme |-> scheme,
                      href |-> scheme \o <<":", "/", "/">> \o host \o Encode(path)]
        ELSE
            \* path state or opaque path state: never fails
            [ok |-> TRUE, scheme |-> scheme, href |-> scheme \o <<":">> \o Encode(rest)]

NoError == "none"

\* the typeof test left out
ValidateUrlUntyped(u) ==
    IF UrlFalsy(u)
    THEN [status |-> 400, error |-> "url is required", normalized |-> Invalid]
    ELSE LET parsed == ParseURL(Candidate(u.s))
         IN  IF ~parsed.ok
             THEN [status |-> 400, error |-> "Invalid URL", normalized |-> Invalid]
             ELSE [status |-> 0, error |-> NoError, normalized |-> parsed]

\* lines 413-424: the validation outcome of a request body's url
ValidateUrl(u) ==
    IF UrlFalsy(u) \/ u.t # "str"
    THEN [status |-> 400, error |-> "url is required", normalized |-> Invalid]
    ELSE LET parsed == ParseURL(Candidate(u.s))
         IN  IF ~parsed.ok
             THEN [status |-> 400, error |-> "Invalid URL", normalized |-> Invalid]
             ELSE [status |-> 0, error |-> NoError, normalized |-> parsed]

----------------------------------------------------------------------------
(* Errors and responses *)

\* an error message; status and body are set for an upstream error only
Msg(text, status, body) == [text |-> text, status |-> status, body |-> body]

Plain(text) == Msg(text, 0, 0)

NoMsg == Plain(NoError)

\* a thrown value: an Error with a message, or something else
Thrown(message) == [isError |-> TRUE, message |-> message]

NoShot == [prefix |-> "", data |-> 0]

\* `data:image/png;base64,${base64}`
DataUrl(bytes) == [prefix |-> "data:image/png;base64,", data |-> bytes]

ErrorResponse(status, message) ==
    [status |-> status, error |-> message, url |-> <<>>, screenshotBase64 |-> NoShot,
     hasAnalysis |-> FALSE, analysis |-> EmptyObject]

SuccessResponse(url, screenshot, analysis) ==
    [status |-> 200, error |-> NoMsg, url |-> url, screenshotBase64 |-> screenshot,
     hasAnalysis |-> TRUE, analysis |-> analysis]

\* the message of the thrown error dropped
CatchMessageGeneric(thrown) == Plain("Unexpected error")

\* error instanceof Error ? error.message : 'Unexpected error'
CatchMessage(thrown) ==
    IF thrown.isError THEN thrown.message ELSE Plain("Unexpected error")

\* the status test left out
ResponseOkAlways(status) == TRUE

\* response.ok
ResponseOk(status) == status \in 200..299

\* the key check left out
KeyMissingNever(key) == FALSE

\* !OPENROUTER_API_KEY
KeyMissing(key) == ~key

----------------------------------------------------------------------------
(* safeParseJson *)

(* The model text is a sequence of chunks: "{" and "}" are braces, "m" is   *)
(* the text of an object member and "t" is commentary.  A span is the text  *)
(* of a JSON object when it opens with "{", closes with the matching "}"    *)
(* at its end and holds nothing but members and nested objects.             *)
TextChunks == {"{", "}", "m", "t"}

Count(s, c, i) == Cardinality({j \in 1..i : s[j] = c})

Depth(s, i) == Count(s, "{", i) - Count(s, "}", i)

\* JSON.parse succeeds on the span
JsonParses(span) ==
    /\ Len(span) >= 2
    /\ span[1] = "{"
    /\ \A i \in 1..Len(span) : span[i] # "t"
    /\ \A i \in 1..(Len(span) - 1) : Depth(span, i) >= 1
    /\ Depth(span, Len(span)) = 0

FirstOpen(s) == IndexBefore(s, "{") + 1

LastClose(s) ==
    CHOOSE j \in 0..Len(s) :
        /\ j > 0 => s[j] = "}"
        /\ \A i \in (j + 1)..Len(s) : s[i] # "}"

\* content.match(/\{[\s\S]*\}/) is not null
HasMatch(s) == FirstOpen(s) < LastClose(s)

\* match[0]: greedy, from the first "{" to the last "}"
MatchOf(s) == SubSeq(s, FirstOpen(s), LastClose(s))

\* defaults returned when the text holds no brace span
safeParseJsonLenient(content) ==
    IF ~HasMatch(content.text)
    THEN [ok |-> TRUE, thrown |-> Thrown(NoMsg), value |-> sanitizeResult(EmptyObject)]
    ELSE IF ~JsonParses(MatchOf(content.text))
    THEN [ok |-> FALSE, thrown |-> Thrown(Plain("Unexpected token in JSON")),
          value |-> EmptyObject]
    ELSE [ok |-> TRUE, thrown |-> Thrown(NoMsg), value |-> sanitizeResult(content.obj)]

\* content is the model text and the object its brace span denotes
safeParseJson(content) ==
    IF ~HasMatch(content.text)
    THEN [ok |-> FALSE, thrown |-> Thrown(Plain("Model did not return JSON")),
          value |-> EmptyObject]
    ELSE IF ~JsonParses(MatchOf(content.text))
    THEN [ok |-> FALSE, thrown |-> Thrown(Plain("Unexpected token in JSON")),
          value |-> EmptyObject]
    ELSE [ok |-> TRUE, thrown |-> Thrown(NoMsg), value |-> sanitizeResult(content.obj)]

----------------------------------------------------------------------------
(* Inputs of the request handler *)

\* "", a.b, "a.b a.b", http://a.b, https:a.b, httpa.b, httpx:a.b and
\* bodies whose url is missing or is not a string
ReqUrls ==
    {UrlVal("str", 0, <<>>),
     UrlVal("str", 0, <<"a.b">>),
     UrlVal("str", 0, <<"a.b", " ", "a.b">>),
     UrlVal("str", 0, <<"http", ":", "/", "/", "a.b">>),
     UrlVal("str", 0, <<"http", "s", ":", "a.b">>),
     UrlVal("str", 0, <<"http", "a.b">>),
     UrlVal("str", 0, <<"http", "x", ":", "a.b">>),
     UrlVal("absent", 0, <<>>),
     UrlVal("num", 1, <<>>)}

ScrollStep == 800

\* line 375: the viewport is 1000 px high
ViewportHeight == 1000

\* document.body.scrollHeight
Heights == {h * (ScrollStep \div 2) : h \in 0..(2 * MaxSteps)}

\* scenario D: palette 99, typography "bad"
ScenarioD ==
    [WellFormed EXCEPT !.scores.rec["palette"] = Sc("num", 990),
                       !.scores.rec["typography"] = Sc("str", 3)]

\* eight signals, one of them a number
LongSignals ==
    [WellFormed EXCEPT !.aiSlopSignals.items =
        [i \in 1..8 |-> IF i = 2 THEN Sc("num", 20) ELSE Sc("str", 4)]]

ModelObjects == {WellFormed, ScenarioD, LongSignals, EmptyObject}

\* the objects a text can denote: {} when its span holds no member
ObjectsOf(text) ==
    IF HasMatch(text) /\ JsonParses(MatchOf(text))
    THEN IF \E i \in 1..Len(text) : text[i] = "m" THEN ModelObjects ELSE {EmptyObject}
    ELSE {EmptyObject}

\* the body of a successful upstream response once read as JSON: null, or
\* an object whose choices[0].message.content is absent, a string or
\* something else
Datas ==
    UNION {{[t |-> "obj", c |-> "str", text |-> x, obj |-> o] : o \in ObjectsOf(x)} :
        x \in SeqsUpTo(TextChunks, MaxTextLen)}
    \cup {[t |-> tag[1], c |-> tag[2], text |-> <<>>, obj |-> EmptyObject] :
        tag \in {<<"null", "absent">>, <<"obj", "absent">>, <<"obj", "other">>}}

NoData == [t |-> "null", c |-> "absent", text |-> <<>>, obj |-> EmptyObject]

UpstreamStatuses == {200, 401, 429}

UpstreamBodies == {1, 2}

NoUpstream == [status |-> 0, body |-> 0]

NoPending == [kind |-> "none", thrown |-> Thrown(NoMsg), value |-> 0]

\* a request before it is received
Idle ==
    [pc |-> "idle", body |-> UrlVal("absent", 0, <<>>), target |-> Invalid,
     browser |-> "none", page |-> "none", height |-> 0, scrollHeight |-> 0, y |-> 0,
     scrolls |-> <<>>, pending |-> NoPending, capFail |-> "none", shot |-> 0,
     launches |-> 0, navigations |-> 0, fetches |-> 0, parses |-> 0,
     upstream |-> NoUpstream, data |-> NoData, fault |-> NoMsg, isError |-> TRUE,
     resp |-> <<>>]

\* the url values handed to the normalizer
RawUrls ==
    {UrlVal("str", 0, s) : s \in SeqsUpTo(UrlChunks, MaxUrlLen)}
    \cup {UrlVal("absent", 0, <<>>), UrlVal("null", 0, <<>>),
          UrlVal("num", 0, <<>>), UrlVal("num", 1, <<>>), UrlVal("obj", 1, <<>>)}

----------------------------------------------------------------------------
(* POST /api/analyze.  A request's pc names the code it is about to run     *)
(* ("validate", "checkKey") or the external call whose completion it        *)
(* awaits; each action runs the handler from one await to the next.         *)

Requests == DOMAIN requests

NoHealth == [status |-> 0, ok |-> FALSE]

\* the health answer made to depend on the credential
HealthResponseKeyed == [status |-> IF apiKey THEN 200 ELSE 500, ok |-> apiKey]

\* lines 408-410: res.json({ ok: true })
HealthResponse == [status |-> 200, ok |-> TRUE]

\* browser and page kept in variables shared by all requests
UpdateShared(r, q) ==
    /\ requests' = [s \in Requests |->
                        IF s = r THEN q
                        ELSE [requests[s] EXCEPT !.browser = q.browser, !.page = q.page]]
    /\ health' = NoHealth
    /\ UNCHANGED <<apiKey, sanVars, urlVars, uiVars>>

\* a step of request r: browser, page and every other local of the handler
\* and of captureScreenshot belong to the call (lines 373, 374, 413-476)
Update(r, q) ==
    /\ requests' = [requests EXCEPT ![r] = q]
    /\ health' = NoHealth
    /\ UNCHANGED <<apiKey, sanVars, urlVars, uiVars>>

\* GET /api/health
Health ==
    /\ health' = HealthResponse
    /\ UNCHANGED <<apiKey, requests, sanVars, urlVars, uiVars>>

\* res.status(status).json({error: message}) and return
\* the return after res.status(...).json(...) left out
RespondNoReturn(q, status, message) ==
    [q EXCEPT !.resp = Append(@, ErrorResponse(status, message))]

\* return res.status(status).json({ error: message })
Respond(q, status, message) ==
    [q EXCEPT !.pc = "done", !.resp = Append(@, ErrorResponse(status, message))]

\* a failed request started over instead of answered
CatchRetry(q, thrown) ==
    [q EXCEPT !.pc = "launch", !.launches = @ + 1, !.fault = thrown.message,
              !.height = 0, !.scrollHeight = 0, !.y = 0, !.pending = NoPending]

\* lines 481-484: the handler's catch block; the capture's locals are gone
Catch(q, thrown) ==
    [Respond(q, 500, CatchMessage(thrown)) EXCEPT
        !.fault = thrown.message, !.isError = thrown.isError, !.height = 0,
        !.scrollHeight = 0, !.y = 0, !.pending = NoPending]

\* the capture leaves its try block: the finally block calls page.close()
Finally(q, pending, cause) ==
    [q EXCEPT !.pc = "closePage", !.pending = pending, !.capFail = cause]

Throw(text) == [kind |-> "throw", thrown |-> Thrown(Plain(text)), value |-> 0]

Outcomes == {"ok", "throw"}

\* a request arrives with one of the given bodies
ReceiveFrom(r, urls) ==
    /\ requests[r].pc = "idle"
    /\ \E u \in urls :
        Update(r, [requests[r] EXCEPT !.pc = "validate", !.body = u])

Receive(r) == ReceiveFrom(r, ReqUrls)

\* ValidateUrl over the bodies a request can carry
Validated == [u \in ReqUrls |-> ValidateUrl(u)]

\* lines 413-424
Validate(r) ==
    LET q == requests[r]
        v == Validated[q.body]
    IN  /\ q.pc = "validate"
        /\ IF v.status # 0
           THEN Update(r, Respond(q, v.status, Plain(v.error)))
           ELSE Update(r, [q EXCEPT !.pc = "checkKey", !.target = v.normalized])

\* lines 426-431 and 373: without a key respond 500, else call
\* captureScreenshot, which calls chromium.launch
CheckKey(r) ==
    LET q == requests[r]
    IN  /\ q.pc = "checkKey"
        /\ IF KeyMissing(apiKey)
           THEN Update(r, Respond(q, 500, Plain("OPENROUTER_API_KEY is missing in environment")))
           ELSE Update(r, [q EXCEPT !.pc = "launch", !.launches = @ + 1])

\* line 373 completes; line 374 calls browser.newPage outside the try block
Launch(r) ==
    LET q == requests[r]
    IN  /\ q.pc = "launch"
        /\ \E o \in Outcomes :
            IF o = "ok"
            THEN Update(r, [q EXCEPT !.pc = "newPage", !.browser = "open"])
            ELSE Update(r, Catch([q EXCEPT !.capFail = "launch"],
                                 Thrown(Plain("browserType.launch failed"))))

\* line 374 completes; line 380 calls page.goto inside the try block
NewPage(r) ==
    LET q == requests[r]
    IN  /\ q.pc = "newPage"
        /\ \E o \in Outcomes :
            IF o = "ok"
            THEN Update(r, [q EXCEPT !.pc = "goto", !.page = "open", !.navigations = @ + 1])
            ELSE Update(r, Catch([q EXCEPT !.capFail = "newPage"],
                                 Thrown(Plain("browser.newPage failed"))))

\* lines 380-384: navigation settles, then the scroll height is asked for
Goto(r) ==
    LET q == requests[r]
    IN  /\ q.pc = "goto"
        /\ \E o \in Outcomes :
            IF o = "ok"
            THEN Update(r, [q EXCEPT !.pc = "measure"])
            ELSE Update(r, Finally(q, Throw("page.goto failed"), "goto"))

\* line 386: the loop test decides the next page.evaluate
\* the loop test taken as y <= scrollHeight
LoopTestInclusive(q) ==
    [q EXCEPT !.pc = IF q.y <= q.scrollHeight THEN "sweep" ELSE "scrollTop"]

\* the page's height read again at every test of the loop
LoopTestLive(q) ==
    [q EXCEPT !.pc = IF q.y < q.height THEN "sweep" ELSE "scrollTop"]

\* line 386: y < scrollHeight
LoopTest(q) ==
    [q EXCEPT !.pc = IF q.y < q.scrollHeight THEN "sweep" ELSE "scrollTop"]

\* lines 384-386: the page's scroll height is read once
MeasureFrom(r, heights) ==
    LET q == requests[r]
    IN  /\ q.pc = "measure"
        /\ \/ \E h \in heights :
                Update(r, LoopTest([q EXCEPT !.height = h, !.scrollHeight = h, !.y = 0]))
           \/ Update(r, Finally(q, Throw("page.evaluate failed"), "evaluate"))

Measure(r) == MeasureFrom(r, Heights)

\* what a scroll can add to the page's height: nothing, or a lazily
\* loaded section
Growths == {0, ScrollStep}

\* the height up to which the page is followed as it grows
MaxHeight == 2 * ScrollStep * MaxSteps

\* lines 386-389: window.scrollTo(0, y) has run, the page may have grown,
\* y += step
SweepStepBy(r, growths) ==
    LET q == requests[r]
    IN  /\ q.pc = "sweep"
        /\ \/ \E g \in growths :
                /\ q.height + g <= MaxHeight
                /\ Update(r, LoopTest([q EXCEPT !.scrolls = Append(@, q.y),
                                             !.height = @ + g,
                                             !.y = @ + ScrollStep]))
           \/ Update(r, Finally(q, Throw("page.evaluate failed"), "evaluate"))

SweepStep(r) == SweepStepBy(r, Growths)

\* lines 391-394: window.scrollTo(0, 0) has run, page.screenshot is called
ScrollTop(r) ==
    LET q == requests[r]
    IN  /\ q.pc = "scrollTop"
        /\ \E o \in Outcomes :
            IF o = "ok"
            THEN Update(r, [q EXCEPT !.pc = "screenshot", !.scrolls = Append(@, 0)])
            ELSE Update(r, Finally(q, Throw("page.evaluate failed"), "evaluate"))

\* line 394: the return value waits for the finally block
Screenshot(r) ==
    LET q == requests[r]
    IN  /\ q.pc = "screenshot"
        /\ \E o \in Outcomes :
            IF o = "ok"
            THEN Update(r, Finally(q, [kind |-> "return", thrown |-> Thrown(NoMsg),
                                       value |-> 1], "none"))
            ELSE Update(r, Finally(q, Throw("page.screenshot failed"), "screenshot"))

\* line 396: a failure of page.close leaves the finally block at once
ClosePage(r) ==
    LET q == requests[r]
    IN  /\ q.pc = "closePage"
        /\ \E o \in Outcomes :
            IF o = "ok"
            THEN Update(r, [q EXCEPT !.pc = "closeBrowser", !.page = "closed"])
            ELSE Update(r, Catch([q EXCEPT !.capFail = IF @ = "none" THEN "closePage" ELSE @],
                                 Thrown(Plain("page.close failed"))))

\* lines 397 and 432-434: the capture returns its buffer or rethrows; with
\* the buffer the critique service is called
CloseBrowser(r) ==
    LET q == requests[r]
    IN  /\ q.pc = "closeBrowser"
        /\ \/ LET c == [q EXCEPT !.browser = "closed"]
              IN  IF q.pending.kind = "return"
                  THEN Update(r, [c EXCEPT !.pc = "fetch", !.shot = q.pending.value,
                                           !.fetches = @ + 1, !.height = 0,
                                           !.scrollHeight = 0,
                                           !.y = 0, !.pending = NoPending])
                  ELSE Update(r, Catch(c, q.pending.thrown))
           \/ \E b \in {"open", "closed"} :
                Update(r, Catch([q EXCEPT !.browser = b,
                                          !.capFail = IF @ = "none" THEN "closeBrowser" ELSE @],
                                Thrown(Plain("browser.close failed"))))

\* lines 434-471: the status line arrives, the body is read next
Fetch(r) ==
    LET q == requests[r]
    IN  /\ q.pc = "fetch"
        /\ \/ \E st \in UpstreamStatuses :
                Update(r, [q EXCEPT !.upstream.status = st,
                                    !.pc = IF ResponseOk(st) THEN "readJson" ELSE "readText"])
           \/ Update(r, Catch(q, Thrown(Plain("fetch failed"))))
           \/ Update(r, Catch(q, [isError |-> FALSE, message |-> Plain("rejected")]))

\* lines 467-468
ReadText(r) ==
    LET q == requests[r]
    IN  /\ q.pc = "readText"
        /\ \/ \E b \in UpstreamBodies :
                Update(r, Catch([q EXCEPT !.upstream.body = b],
                                Thrown(Msg("OpenRouter error", q.upstream.status, b))))
           \/ Update(r, Catch(q, Thrown(Plain("body read failed"))))

\* lines 471-480
ReadJsonFrom(r, datas) ==
    LET q == requests[r]
    IN  /\ q.pc = "readJson"
        /\ \/ \E d \in datas :
                LET g == [q EXCEPT !.data = d]
                    \* data.choices?.[0]?.message?.content ?? ''
                    text == IF d.c = "str" THEN d.text ELSE <<>>
                    parsed == safeParseJson([text |-> text, obj |-> d.obj])
                IN  IF d.t = "null"
                    THEN Update(r, Catch(g, Thrown(Plain("Cannot read properties of null"))))
                    ELSE IF d.c = "other"
                    THEN Update(r, Catch([g EXCEPT !.parses = @ + 1],
                                         Thrown(Plain("text.match is not a function"))))
                    ELSE IF ~parsed.ok
                    THEN Update(r, Catch([g EXCEPT !.parses = @ + 1], parsed.thrown))
                    ELSE Update(r, [g EXCEPT
                            !.pc = "done", !.parses = @ + 1,
                            !.resp = Append(@, SuccessResponse(q.target.href, DataUrl(q.shot),
                                                               parsed.value))])
           \/ Update(r, Catch(q, Thrown(Plain("invalid json response body"))))

ReadJson(r) == ReadJsonFrom(r, Datas)

----------------------------------------------------------------------------
(* The page: App and handleSubmit (lines 76-121) *)

\* what the user can type into the url field
TypedUrls == {<<>>, <<"a.b">>, <<"a.b", " ", "a.b">>}

\* what fetch('/api/analyze') can resolve to: the answers of the server
\* above, and answers that are not of its making (a proxy's error page, a
\* body cut short), whose body is not JSON or is an object without error
UiResponses ==
    {[status |-> 200, json |-> TRUE,
      payload |-> SuccessResponse(<<"https", "a.b">>, DataUrl(1), sanitizeResult(o))] :
        o \in {WellFormed, ScenarioD}}
    \cup {[status |-> a.status, json |-> TRUE, payload |-> a] :
            a \in {ErrorResponse(400, Plain("url is required")),
                   ErrorResponse(400, Plain("Invalid URL")),
                   ErrorResponse(500, Plain("OPENROUTER_API_KEY is missing in environment")),
                   ErrorResponse(500, Msg("OpenRouter error", 429, 1)),
                   ErrorResponse(502, NoMsg)}}
    \cup {[status |-> st, json |-> FALSE, payload |-> ErrorResponse(st, NoMsg)] :
            st \in {200, 502}}

NoResponse == [status |-> 0, json |-> FALSE, payload |-> ErrorResponse(0, NoMsg)]

\* lines 78-81: useState(''), useState(null), useState(null), useState(false)
Mounted ==
    [pc |-> "idle", url |-> <<>>, sent |-> <<>>, result |-> <<>>, error |-> <<>>,
     isLoading |-> FALSE, response |-> NoResponse, path |-> "none"]

UiIdle == ui = Mounted

\* the error of the last submission left on screen
SubmittedKeepError(s) ==
    [s EXCEPT !.pc = "fetch", !.sent = s.url, !.result = <<>>, !.isLoading = TRUE,
              !.response = NoResponse, !.path = "none"]

\* lines 99-104: setError(null), setResult(null), setIsLoading(true), fetch
Submitted(s) ==
    [s EXCEPT !.pc = "fetch", !.sent = s.url, !.error = <<>>, !.result = <<>>,
              !.isLoading = TRUE, !.response = NoResponse, !.path = "none"]

\* line 117: setError(err instanceof Error ? err.message : 'Unexpected error')
Caught(s, thrown, path) ==
    [s EXCEPT !.pc = "finally", !.error = <<CatchMessage(thrown)>>, !.path = path]

\* line 148: onChange
SetUrl ==
    /\ \E u \in TypedUrls : ui' = [ui EXCEPT !.url = u]
    /\ UNCHANGED <<srvVars, sanVars, urlVars>>

\* lines 97-104; the submit button is disabled while isLoading (line 155)
HandleSubmit ==
    /\ ui.pc = "idle"
    /\ ~ui.isLoading
    /\ ui' = Submitted(ui)
    /\ UNCHANGED <<srvVars, sanVars, urlVars>>

\* line 102: fetch resolves with a response, or rejects
FetchSettled ==
    /\ ui.pc = "fetch"
    /\ \/ \E a \in UiResponses : ui' = [ui EXCEPT !.pc = "json", !.response = a]
       \/ ui' = Caught(ui, Thrown(Plain("Failed to fetch")), "network")
    /\ UNCHANGED <<srvVars, sanVars, urlVars>>

\* lines 108-115: response.json() settles, then the status test
JsonSettled ==
    /\ ui.pc = "json"
    /\ ui' = IF ~ui.response.json
             THEN Caught(ui, Thrown(Plain("Unexpected token in JSON")), "body")
             ELSE IF ~ResponseOk(ui.response.status)
             THEN Caught(ui, Thrown(IF ui.response.payload.error # NoMsg
                                    THEN ui.response.payload.error
                                    ELSE Plain("Failed to analyze")), "http")
             ELSE [ui EXCEPT !.pc = "finally", !.result = <<ui.response.payload>>,
                             !.path = "ok"]
    /\ UNCHANGED <<srvVars, sanVars, urlVars>>

\* line 119: setIsLoading(false)
SettledFinally ==
    /\ ui.pc = "finally"
    /\ ui' = [ui EXCEPT !.pc = "idle", !.isLoading = FALSE]
    /\ UNCHANGED <<srvVars, sanVars, urlVars>>

----------------------------------------------------------------------------
(* Specifications *)

SanIdle ==
    /\ sanIn = EmptyObject
    /\ sanOut = EmptyObject
    /\ sanDone = FALSE
    /\ sanTwice = <<>>

UrlIdle ==
    /\ urlIn = UrlVal("absent", 0, <<>>)
    /\ urlOut = [status |-> 0, error |-> NoError, normalized |-> Invalid]
    /\ urlDone = FALSE

SrvIdle ==
    /\ apiKey = TRUE
    /\ requests = [r \in {1} |-> Idle]
    /\ health = NoHealth

\* the server after start-up: the key is taken from the environment once
Init ==
    /\ apiKey \in BOOLEAN
    /\ requests = [r \in {1} |-> Idle]
    /\ health = NoHealth
    /\ SanIdle
    /\ UrlIdle
    /\ UiIdle

Next ==
    \/ \E r \in Requests : Receive(r)
    \/ \E r \in Requests : Validate(r)
    \/ \E r \in Requests : CheckKey(r)
    \/ \E r \in Requests : Launch(r)
    \/ \E r \in Requests : NewPage(r)
    \/ \E r \in Requests : Goto(r)
    \/ \E r \in Requests : Measure(r)
    \/ \E r \in Requests : SweepStep(r)
    \/ \E r \in Requests : ScrollTop(r)
    \/ \E r \in Requests : Screenshot(r)
    \/ \E r \in Requests : ClosePage(r)
    \/ \E r \in Requests : CloseBrowser(r)
    \/ \E r \in Requests : Fetch(r)
    \/ \E r \in Requests : ReadText(r)
    \/ \E r \in Requests : ReadJson(r)
    \/ Health

Spec == Init /\ [][Next]_vars

\* two requests handled at once, each with a small choice of inputs
ConcUrls ==
    {UrlVal("str", 0, <<"a.b">>),
     UrlVal("str", 0, <<"http", ":", "/", "/", "a.b">>),
     UrlVal("str", 0, <<"a.b", " ", "a.b">>)}

ConcDatas ==
    {[t |-> "obj", c |-> "str", text |-> <<"{", "m", "}">>, obj |-> ScenarioD],
     [t |-> "obj", c |-> "str", text |-> <<"t">>, obj |-> EmptyObject]}

InitConc ==
    /\ apiKey \in BOOLEAN
    /\ requests = [r \in {1, 2} |-> Idle]
    /\ health = NoHealth
    /\ SanIdle
    /\ UrlIdle
    /\ UiIdle

NextConc ==
    \/ \E r \in Requests : ReceiveFrom(r, ConcUrls)
    \/ \E r \in Requests : Validate(r)
    \/ \E r \in Requests : CheckKey(r)
    \/ \E r \in Requests : Launch(r)
    \/ \E r \in Requests : NewPage(r)
    \/ \E r \in Requests : Goto(r)
    \/ \E r \in Requests : MeasureFrom(r, {ScrollStep})
    \/ \E r \in Requests : SweepStepBy(r, {0})
    \/ \E r \in Requests : ScrollTop(r)
    \/ \E r \in Requests : Screenshot(r)
    \/ \E r \in Requests : ClosePage(r)
    \/ \E r \in Requests : CloseBrowser(r)
    \/ \E r \in Requests : Fetch(r)
    \/ \E r \in Requests : ReadText(r)
    \/ \E r \in Requests : ReadJsonFrom(r, ConcDatas)
    \/ Health

SpecConc == InitConc /\ [][NextConc]_vars

\* the next step of request r once it is received: the code between two
\* awaits, run when the awaited call returns or throws
Handle(r) ==
    \/ Validate(r)
    \/ CheckKey(r)
    \/ Launch(r)
    \/ NewPage(r)
    \/ Goto(r)
    \/ Measure(r)
    \/ SweepStep(r)
    \/ ScrollTop(r)
    \/ Screenshot(r)
    \/ ClosePage(r)
    \/ CloseBrowser(r)
    \/ Fetch(r)
    \/ ReadText(r)
    \/ ReadJsonFrom(r, ConcDatas)

\* one request with every page height and growth, and the model texts of
\* the concurrent specification: what the text holds has no part in whether
\* the request ends
NextLive ==
    \/ \E r \in Requests : Receive(r)
    \/ \E r \in Requests : Validate(r)
    \/ \E r \in Requests : CheckKey(r)
    \/ \E r \in Requests : Launch(r)
    \/ \E r \in Requests : NewPage(r)
    \/ \E r \in Requests : Goto(r)
    \/ \E r \in Requests : Measure(r)
    \/ \E r \in Requests : SweepStep(r)
    \/ \E r \in Requests : ScrollTop(r)
    \/ \E r \in Requests : Screenshot(r)
    \/ \E r \in Requests : ClosePage(r)
    \/ \E r \in Requests : CloseBrowser(r)
    \/ \E r \in Requests : Fetch(r)
    \/ \E r \in Requests : ReadText(r)
    \/ \E r \in Requests : ReadJsonFrom(r, ConcDatas)
    \/ Health

\* every external call of the request eventually returns or throws
SpecLive == Init /\ [][NextLive]_vars /\ WF_vars(Handle(1))

\* sanitizeResult applied to a parsed object
InitSan ==
    /\ sanIn \in RawObjects
    /\ sanOut = EmptyObject
    /\ sanDone = FALSE
    /\ sanTwice = <<>>
    /\ UrlIdle
    /\ UiIdle
    /\ SrvIdle

Sanitize ==
    /\ ~sanDone
    /\ sanOut' = sanitizeResult(sanIn)
    /\ sanDone' = TRUE
    /\ UNCHANGED <<sanIn, sanTwice, urlVars, srvVars, uiVars>>

\* sanitizeResult applied to its own output
SanitizeAgain ==
    /\ sanDone
    /\ sanTwice = <<>>
    /\ sanTwice' = <<sanitizeResult(sanOut)>>
    /\ UNCHANGED <<sanIn, sanOut, sanDone, urlVars, srvVars, uiVars>>

NextSan ==
    \/ Sanitize
    \/ SanitizeAgain

SpecSan == InitSan /\ [][NextSan]_vars

\* the page: the user types and submits, the fetch settles
InitUI ==
    /\ UiIdle
    /\ SrvIdle
    /\ SanIdle
    /\ UrlIdle

NextUI ==
    \/ SetUrl
    \/ HandleSubmit
    \/ FetchSettled
    \/ JsonSettled
    \/ SettledFinally

SpecUI == InitUI /\ [][NextUI]_vars

\* lines 413-424 applied to the url of a request body
InitUrl ==
    /\ urlIn \in RawUrls
    /\ urlOut = [status |-> 0, error |-> NoError, normalized |-> Invalid]
    /\ urlDone = FALSE
    /\ SanIdle
    /\ SrvIdle
    /\ UiIdle

Normalize ==
    /\ ~urlDone
    /\ urlOut' = ValidateUrl(urlIn)
    /\ urlDone' = TRUE
    /\ UNCHANGED <<urlIn, sanVars, srvVars, uiVars>>

NextUrl == Normalize

SpecUrl == InitUrl /\ [][NextUrl]_vars

----------------------------------------------------------------------------
(* Properties of the request handler *)

\* the url is a non-empty string that builds into an absolute URL
PassesValidation(u) == ~UrlFalsy(u) /\ u.t = "str" /\ ParseURL(Candidate(u.s)).ok

MissingKeyResponse == ErrorResponse(500, Plain("OPENROUTER_API_KEY is missing in environment"))

\* the request has left captureScreenshot, by return or by throw
CaptureExited(q) == q.launches > 0 /\ q.pc \in {"fetch", "readText", "readJson", "done"}

\* the model text of the request was read and its brace span parsed as JSON
ParsedOk(q) ==
    /\ q.data.t = "obj"
    /\ q.data.c = "str"
    /\ HasMatch(q.data.text)
    /\ JsonParses(MatchOf(q.data.text))

\* C1: a request whose url passes validation while the credential is not
\* configured is answered 500 with the missing-credential error, and at no
\* point of its handling is a browser launched, a page navigated or the
\* critique service called.
C1_KeyCheckPrecedesCapture ==
    \A r \in Requests :
        LET q == requests[r]
        IN  (~apiKey /\ q.pc # "idle" /\ PassesValidation(q.body)) =>
                /\ q.launches = 0
                /\ q.navigations = 0
                /\ q.fetches = 0
                /\ q.browser = "none"
                /\ q.page = "none"
                /\ q.pc \in {"validate", "checkKey", "done"}
                /\ q.pc = "done" => q.resp = <<MissingKeyResponse>>

C1_Witness ==
    \E r \in Requests :
        /\ ~apiKey
        /\ requests[r].pc = "done"
        /\ PassesValidation(requests[r].body)
        /\ requests[r].resp = <<MissingKeyResponse>>

\* C2: whenever captureScreenshot has launched a browser, then on every exit
\* path (return, or a failure of page creation, navigation, scroll
\* evaluation, screenshot or page close) the page, if opened, and the
\* browser are closed by the time captureScreenshot returns or throws.
C2_BrowserAlwaysClosed ==
    \A r \in Requests :
        LET q == requests[r]
        IN  (/\ CaptureExited(q)
             /\ q.browser # "none"
             /\ q.capFail \in {"none", "newPage", "goto", "evaluate", "screenshot", "closePage"})
            => (q.browser = "closed" /\ q.page # "open")

\* C3: a response is 200 only if the capture returned screenshot bytes, the
\* critique service answered with a success status and the model text was
\* parsed and sanitized, and it then carries url, screenshotBase64 and
\* analysis together; if capture, critique call or parsing fails the response
\* is 500 {error: message} with the failure's message and carries neither a
\* screenshot nor an analysis.
C3_NoPartialResults ==
    \A r \in Requests :
        LET q  == requests[r]
            ok == q.shot # 0 /\ q.upstream.status \in 200..299 /\ ParsedOk(q)
        IN  (q.pc = "done" /\ q.launches > 0) =>
                /\ Len(q.resp) = 1
                /\ q.resp[1].status = 200 <=> ok
                /\ ok =>
                    /\ q.resp[1].url = q.target.href
                    /\ q.resp[1].url # <<>>
                    /\ q.resp[1].screenshotBase64 = DataUrl(q.shot)
                    /\ q.resp[1].hasAnalysis
                    /\ q.resp[1].analysis = sanitizeResult(q.data.obj)
                    /\ q.resp[1].error = NoMsg
                /\ ~ok =>
                    /\ q.resp[1].status = 500
                    /\ q.resp[1].error = IF q.isError THEN q.fault ELSE Plain("Unexpected error")
                    /\ q.fault # NoMsg
                    /\ q.resp[1].screenshotBase64 = NoShot
                    /\ ~q.resp[1].hasAnalysis

C3_Witness ==
    \E r \in Requests :
        /\ requests[r].pc = "done"
        /\ requests[r].shot # 0
        /\ requests[r].resp[1].status = 200
        /\ requests[r].data.obj = ScenarioD

\* C4: a url that is missing, empty or not a string is answered 400 "url is
\* required" and a url that cannot be built into an absolute URL after
\* normalization is answered 400 "Invalid URL", whether or not the credential
\* is configured and without a browser launch or a critique call.
C4_InputErrorsFirst ==
    \A r \in Requests :
        LET q == requests[r]
        IN  q.pc \notin {"idle", "validate"} =>
                /\ (UrlFalsy(q.body) \/ q.body.t # "str") =>
                    /\ q.pc = "done"
                    /\ q.resp = <<ErrorResponse(400, Plain("url is required"))>>
                    /\ q.launches = 0 /\ q.fetches = 0 /\ q.browser = "none"
                /\ (~UrlFalsy(q.body) /\ q.body.t = "str" /\ ~ParseURL(Candidate(q.body.s)).ok) =>
                    /\ q.pc = "done"
                    /\ q.resp = <<ErrorResponse(400, Plain("Invalid URL"))>>
                    /\ q.launches = 0 /\ q.fetches = 0 /\ q.browser = "none"

C4_Witness ==
    \E r \in Requests :
        /\ ~apiKey
        /\ requests[r].pc = "done"
        /\ requests[r].body.t = "str"
        /\ requests[r].body.s # <<>>
        /\ requests[r].resp = <<ErrorResponse(400, Plain("Invalid URL"))>>

----------------------------------------------------------------------------
(* Properties of the sanitizer and of the normalizer *)

\* C5: each of the five scores of the sanitized result is an integer in
\* [1,10]; an absent or non-finite score becomes 1; a finite number is
\* rounded to the nearest integer and then clamped (0 gives 1, 11 and 99
\* give 10, 7.6 gives 8).
C5_ScoresClamped ==
    sanDone =>
        /\ sanOut.scores.t = "obj"
        /\ \A k \in ScoreKeys :
            LET v   == IF sanIn.scores.t = "obj" THEN sanIn.scores.rec[k] ELSE Absent
                out == sanOut.scores.rec[k]
            IN  /\ out.t = "num"
                /\ out.n \in {10 * i : i \in 1..10}
                /\ v.t # "num" => out.n = 10
                /\ v.t = "num" =>
                    \/ out.n = 10 /\ v.n < 15
                    \/ out.n = 100 /\ v.n >= 95
                    \/ (out.n - v.n) \in -5..5
                /\ v = Sc("num", 0) => out.n = 10
                /\ v = Sc("num", 110) => out.n = 100
                /\ v = Sc("num", 990) => out.n = 100
                /\ v = Sc("num", 76) => out.n = 80

C5_Witness ==
    /\ sanDone
    /\ sanIn.scores.t = "obj"
    /\ sanIn.scores.rec["palette"] = Sc("num", 990)
    /\ sanIn.scores.rec["typography"].t = "str"
    /\ sanOut.scores.rec["palette"] = Sc("num", 100)
    /\ sanOut.scores.rec["typography"] = Sc("num", 10)

\* C6: every analysis returned in a 200 response has the shape of a
\* CritiqueResult: verdict and overallAssessment are strings, categoryRoasts
\* maps each category key to a string, aiSlopDetected is a boolean and every
\* entry of aiSlopSignals is a string.
C6_AnalysisShape ==
    \A r \in Requests :
        \A i \in 1..Len(requests[r].resp) :
            LET a == requests[r].resp[i].analysis
            IN  requests[r].resp[i].status = 200 =>
                    /\ a.verdict.t = "str"
                    /\ a.overallAssessment.t = "str"
                    /\ a.categoryRoasts.t = "obj"
                    /\ \A k \in ScoreKeys : a.categoryRoasts.rec[k].t = "str"
                    /\ a.aiSlopDetected.t = "bool"
                    /\ a.aiSlopSignals.t = "list"
                    /\ \A j \in 1..Len(a.aiSlopSignals.items) : a.aiSlopSignals.items[j].t = "str"

\* C7: the sanitized aiSlopSignals has at most 6 entries: the first
\* min(n, 6) entries of an input list of n entries, in order, and the empty
\* list when the input field is absent or is not a list.
C7_SignalsTruncated ==
    sanDone =>
        LET in  == sanIn.aiSlopSignals
            out == sanOut.aiSlopSignals
        IN  /\ out.t = "list"
            /\ Len(out.items) <= 6
            /\ in.t = "list" =>
                /\ Len(out.items) = IF Len(in.items) < 6 THEN Len(in.items) ELSE 6
                /\ \A i \in 1..Len(out.items) : out.items[i] = in.items[i]
            /\ in.t # "list" => out.items = <<>>

C7_Witness ==
    /\ sanDone
    /\ sanIn.aiSlopSignals.t = "list"
    /\ Len(sanIn.aiSlopSignals.items) = 7
    /\ Len(sanOut.aiSlopSignals.items) = 6

\* C8: for every url string the normalizer accepts, the normalized target is
\* an absolute URL whose scheme is http or https: https when the input does
\* not begin with "http", the input's own scheme when it does.
C8_SchemeHttpOrHttps ==
    (urlDone /\ urlOut.status = 0) =>
        /\ urlOut.normalized.ok
        /\ urlOut.normalized.scheme \in {<<"http">>, <<"http", "s">>}
        /\ ~(Len(urlIn.s) >= 1 /\ urlIn.s[1] = "http") => urlOut.normalized.scheme = <<"http", "s">>

\* C9: if the model text (an absent content being the empty text) holds no
\* "{" followed later by a "}", the response is 500 "Model did not return
\* JSON"; if it does but the span from the first "{" to the last "}" does not
\* parse as JSON, the response is also 500; never a 200 with defaults.
C9_MalformedTextFails ==
    \A r \in Requests :
        LET q      == requests[r]
            text   == IF q.data.c = "str" THEN q.data.text ELSE <<>>
            braces == \E i, j \in 1..Len(text) : i < j /\ text[i] = "{" /\ text[j] = "}"
            first  == CHOOSE i \in 1..Len(text) :
                        text[i] = "{" /\ \A h \in 1..(i - 1) : text[h] # "{"
            last   == CHOOSE j \in 1..Len(text) :
                        text[j] = "}" /\ \A h \in (j + 1)..Len(text) : text[h] # "}"
        IN  (/\ q.pc = "done"
             /\ q.shot # 0
             /\ q.upstream.status \in 200..299
             /\ q.data.t = "obj"
             /\ q.data.c \in {"absent", "str"}) =>
                /\ ~braces => q.resp = <<ErrorResponse(500, Plain("Model did not return JSON"))>>
                /\ (braces /\ ~JsonParses(SubSeq(text, first, last))) =>
                    /\ Len(q.resp) = 1
                    /\ q.resp[1].status = 500
                    /\ ~q.resp[1].hasAnalysis

C9_Witness ==
    \E r \in Requests :
        /\ requests[r].pc = "done"
        /\ requests[r].data.c = "str"
        /\ requests[r].data.text = <<"{", "}", "{", "}">>
        /\ requests[r].resp[1].status = 500

\* C10 as stated: when the critique service answers with a non-success
\* status, the request ends with 500 whose error message carries both the
\* upstream status and the upstream body, and the body is never parsed.
C10_UpstreamErrorCarried ==
    \A r \in Requests :
        LET q == requests[r]
        IN  (q.pc = "done" /\ q.upstream.status # 0 /\ q.upstream.status \notin 200..299) =>
                /\ q.upstream.body # 0
                /\ q.resp = <<ErrorResponse(500, Msg("OpenRouter error", q.upstream.status,
                                                     q.upstream.body))>>
                /\ q.parses = 0

\* C10 amended: when the critique service answers with a non-success status,
\* the request ends with 500 and the body is never parsed or sanitized; the
\* error message carries the upstream status and body when the body was
\* read, and is the read failure's message when reading the body failed.
C10_UpstreamErrorOrReadFailure ==
    \A r \in Requests :
        LET q == requests[r]
        IN  (q.pc = "done" /\ q.upstream.status # 0 /\ q.upstream.status \notin 200..299) =>
                /\ Len(q.resp) = 1
                /\ q.resp[1].status = 500
                /\ ~q.resp[1].hasAnalysis
                /\ q.parses = 0
                /\ q.data = NoData
                /\ q.upstream.body # 0 =>
                    q.resp[1].error = Msg("OpenRouter error", q.upstream.status, q.upstream.body)
                /\ q.upstream.body = 0 => q.resp[1].error = Plain("body read failed")

C10_Witness ==
    \E r \in Requests :
        /\ requests[r].pc = "done"
        /\ requests[r].upstream = [status |-> 429, body |-> 2]
        /\ requests[r].resp[1].error = Msg("OpenRouter error", 429, 2)

----------------------------------------------------------------------------
(* Properties of the pipeline's order *)

\* the stage a pc belongs to: 1 validate, 2 credential check, 3 capture,
\* 4 critique call (sanitizing is part of its last step), 5 responded
StageOf(pc) ==
    CASE pc = "idle"     -> 0
      [] pc = "validate" -> 1
      [] pc = "checkKey" -> 2
      [] pc \in {"fetch", "readText", "readJson"} -> 4
      [] pc = "done"     -> 5
      [] OTHER           -> 3

\* C11: within one request the stages run in the order validate, credential
\* check, capture, critique call, sanitize, respond, each entered at most
\* once; the critique call is issued only after the capture returned the
\* screenshot bytes and tore its browser down, sanitization only after the
\* critique text was received, nothing is retried, and a failure moves the
\* request to its error response.
C11_StagesInOrder ==
    [][\A r \in Requests :
        LET q == requests[r]
            n == requests'[r]
        IN  /\ StageOf(n.pc) >= StageOf(q.pc)
            /\ StageOf(n.pc) \in {StageOf(q.pc), StageOf(q.pc) + 1} \/ n.pc = "done"
            /\ q.pc = "done" => n = q
            /\ n.launches <= 1 /\ n.navigations <= 1 /\ n.fetches <= 1 /\ n.parses <= 1
            /\ n.launches = 1 <=> (StageOf(n.pc) \in {3, 4} \/ (n.pc = "done" /\ q.launches = 1))
            /\ n.fetches = 1 =>
                /\ n.launches = 1
                /\ n.shot # 0
                /\ n.browser = "closed"
                /\ n.page = "closed"
            /\ n.fetches = 0 => (n.upstream = NoUpstream /\ n.parses = 0)
            /\ n.parses = 1 =>
                /\ n.fetches = 1
                /\ n.upstream.status \in 200..299
                /\ n.data.t = "obj"
                /\ n.pc = "done"
            /\ n.fault # NoMsg => (n.pc = "done" /\ Len(n.resp) = 1 /\ n.resp[1].status = 500)
    ]_vars

C11_Witness ==
    \E r \in Requests :
        /\ requests[r].pc = "done"
        /\ requests[r].launches = 1
        /\ requests[r].fetches = 1
        /\ requests[r].parses = 1
        /\ requests[r].resp[1].status = 200


\* C13: the handler sends at most one response per request on every path,
\* its status is 200, 400 or 500, and every response that is not 200 has a
\* flat body {error: string}: no url, screenshot or analysis beside it, the
\* error being the failure's message, or "Unexpected error" when the thrown
\* value is not an Error.
C13_OneFlatResponse ==
    \A r \in Requests :
        LET q == requests[r]
        IN  /\ Len(q.resp) <= 1
            /\ q.pc = "done" <=> Len(q.resp) = 1
            /\ \A i \in 1..Len(q.resp) :
                LET a == q.resp[i]
                IN  /\ a.status \in {200, 400, 500}
                    /\ a.status # 200 =>
                        /\ a.url = <<>>
                        /\ a.screenshotBase64 = NoShot
                        /\ ~a.hasAnalysis
                        /\ a.analysis = EmptyObject
                        /\ a.error # NoMsg
                        /\ a.error.text # ""
                    /\ (a.status = 500 /\ q.fault # NoMsg) =>
                        a.error = IF q.isError THEN q.fault ELSE Plain("Unexpected error")
                    /\ a.status = 200 => a.error = NoMsg

C13_Witness ==
    \E r \in Requests :
        /\ requests[r].pc = "done"
        /\ ~requests[r].isError
        /\ requests[r].resp = <<ErrorResponse(500, Plain("Unexpected error"))>>

----------------------------------------------------------------------------
(* Properties of the sanitizer *)

\* C17: sanitizeResult changes only scores, aiSlopDetected and aiSlopSignals:
\* verdict, categoryRoasts and overallAssessment of the output are exactly the
\* input's values, whatever their type, and aiSlopDetected is the input's
\* value coerced to a boolean by truthiness.
C17_OtherFieldsUntouched ==
    sanDone =>
        /\ DOMAIN sanOut = DOMAIN sanIn
        /\ sanOut.verdict = sanIn.verdict
        /\ sanOut.categoryRoasts = sanIn.categoryRoasts
        /\ sanOut.overallAssessment = sanIn.overallAssessment
        /\ sanOut.aiSlopDetected.t = "bool"
        /\ sanOut.aiSlopDetected.n \in {0, 1}
        /\ sanOut.aiSlopDetected.n = 0 <=>
                sanIn.aiSlopDetected \in {Absent, Sc("null", 0), Sc("bool", 0), Sc("num", 0),
                                          Sc("nan", 0), Sc("str", 0)}

C17_Witness ==
    /\ sanDone
    /\ sanIn.aiSlopDetected = Sc("str", 3)
    /\ sanOut.aiSlopDetected = Sc("bool", 1)
    /\ sanIn.verdict = Absent

\* C14: sanitizeResult is idempotent: applied to its own output it returns
\* that output unchanged in every field, scores, aiSlopDetected and
\* aiSlopSignals included.
C14_SanitizeIdempotent ==
    sanTwice # <<>> =>
        /\ sanTwice = <<sanOut>>
        /\ \A k \in ScoreKeys : sanTwice[1].scores.rec[k] = sanOut.scores.rec[k]
        /\ sanTwice[1].aiSlopDetected = sanOut.aiSlopDetected
        /\ sanTwice[1].aiSlopSignals = sanOut.aiSlopSignals

C14_Witness ==
    /\ sanTwice # <<>>
    /\ Len(sanIn.aiSlopSignals.items) > SignalCap
    /\ Len(sanTwice[1].aiSlopSignals.items) = SignalCap

----------------------------------------------------------------------------
(* Properties of the scroll sweep *)

\* the positions 0, 800, 1600, ... below h
SweepPositions(h) == [i \in 1..((h + ScrollStep - 1) \div ScrollStep) |-> ScrollStep * (i - 1)]

\* every sampled offset of the page up to h was inside the viewport at some
\* position of the sweep
Covered(scrolls, h) ==
    \A p \in {(ScrollStep \div 2) * k : k \in 0..(2 * MaxSteps + 2)} :
        (p > 0 /\ p <= h) =>
            \E i \in 1..Len(scrolls) : scrolls[i] <= p /\ p <= scrolls[i] + ViewportHeight

\* the sweep of request q, judged against a page of height h: positions in
\* increasing steps from the top, the page covered to h once the sweep is
\* over, then the scroll back, and the screenshot only after it
SweptTo(q, h) ==
    LET leaving == q.pc \in {"closePage", "closeBrowser"}
        back    == q.pc = "screenshot" \/ (leaving /\ q.capFail \in {"none", "screenshot"})
        swept   == q.pc = "scrollTop" \/ back
        sweep   == IF back THEN SubSeq(q.scrolls, 1, Len(q.scrolls) - 1) ELSE q.scrolls
    IN  /\ \A i \in 1..Len(q.scrolls) :
                \/ q.scrolls[i] = ScrollStep * (i - 1)
                \/ i = Len(q.scrolls) /\ q.scrolls[i] = 0 /\ q.pc \notin {"sweep", "scrollTop"}
        /\ (q.pc = "sweep" \/ swept) =>
                \A i \in 1..Len(sweep) : sweep[i] = ScrollStep * (i - 1)
        /\ swept => Covered(sweep, h)
        /\ back => (Len(q.scrolls) >= 1 /\ q.scrolls[Len(q.scrolls)] = 0)
        /\ q.pending.kind = "return" => (leaving /\ q.capFail = "none")
        /\ q.pc \in {"sweep", "scrollTop"} => q.pending.kind = "none"
        /\ q.shot # 0 => (Len(q.scrolls) >= 1 /\ q.scrolls[Len(q.scrolls)] = 0)

\* C16: after navigation the sweep visits y = 0, 800, 1600, ... in increasing
\* order and covers the page from the top to the page's full scroll height,
\* then scrolls back to 0, and the screenshot is taken only after that
\* scroll-back and never before the sweep has finished.
C16_SweepCoversPage ==
    \A r \in Requests : SweptTo(requests[r], requests[r].height)

\* C16 amended: the sweep visits exactly the positions 0, 800, 1600, ... below
\* the scroll height measured once before the sweep and so covers the page to
\* that height, whatever the page has grown to meanwhile; it then scrolls
\* back to 0, and the screenshot is taken only after that scroll-back and
\* never before the sweep has finished.
C16_SweepCoversMeasuredHeight ==
    \A r \in Requests :
        LET q == requests[r]
        IN  /\ SweptTo(q, q.scrollHeight)
            /\ (q.pc = "screenshot" \/ q.pending.kind = "return") =>
                    q.scrolls = SweepPositions(q.scrollHeight) \o <<0>>

C16_Witness ==
    \E r \in Requests :
        /\ requests[r].pending.kind = "return"
        /\ requests[r].scrollHeight = 2 * ScrollStep
        /\ requests[r].height > requests[r].scrollHeight
        /\ requests[r].scrolls = <<0, ScrollStep, 0>>

----------------------------------------------------------------------------
(* Termination *)

\* C18: provided each external call of a request eventually returns or
\* throws, the request eventually sends its response; the sweep makes a
\* number of steps fixed by the scroll height measured once, however the page
\* grows meanwhile; and a request that is not yet answered is never blocked
\* by anything but the call it awaits.
C18_EventuallyAnswered ==
    /\ [](requests[1].pc \in {"sweep", "scrollTop"} =>
            /\ Len(requests[1].scrolls) * ScrollStep < requests[1].scrollHeight + ScrollStep
            /\ requests[1].y = Len(requests[1].scrolls) * ScrollStep)
    /\ [](requests[1].pc \notin {"idle", "done"} => ENABLED Handle(1))
    /\ (requests[1].pc # "idle") ~> (requests[1].pc = "done" /\ Len(requests[1].resp) = 1)

C18_Witness ==
    /\ requests[1].pc = "scrollTop"
    /\ requests[1].scrolls = <<0, ScrollStep>>
    /\ requests[1].height = requests[1].scrollHeight + 2 * ScrollStep

----------------------------------------------------------------------------
(* Concurrent requests and the health endpoint *)

\* what request q was given and what its own calls returned
OwnOutcomes(q) ==
    <<q.body, q.capFail, q.shot, q.upstream, q.data, q.fault, q.isError, q.launches>>

\* C12: in every interleaving of two requests a step of one request leaves
\* the other's record, its browser, page and response included, as it was;
\* a request has a browser only from its own launch; and two answered
\* requests with the same url and the same outcomes of their own calls have
\* the same response, whatever the other did meanwhile.
C12_RequestsIndependent ==
    [][\A r \in Requests : \A s \in Requests \ {r} :
        LET q == requests'[r]
            o == requests'[s]
        IN  /\ requests'[r] # requests[r] => requests'[s] = requests[s]
            /\ q.browser # "none" => q.launches = 1
            /\ q.page # "none" => q.navigations = 1
            /\ q.launches <= 1
            /\ (q.pc = "done" /\ o.pc = "done" /\ OwnOutcomes(q) = OwnOutcomes(o)) =>
                    q.resp = o.resp
    ]_vars

C12_Witness ==
    /\ requests[1].pc = "fetch"
    /\ requests[1].browser = "closed"
    /\ requests[2].pc = "done"
    /\ requests[2].capFail = "goto"
    /\ requests[2].browser = "closed"
    /\ requests[2].resp[1].status = 500

\* C15: GET /api/health can be answered in every reachable state, and its
\* answer is 200 {ok: true} whether or not the credential is configured and
\* whatever the analyze requests are doing.
C15_HealthAlwaysOk ==
    /\ ENABLED Health
    /\ health # NoHealth => health = [status |-> 200, ok |-> TRUE]

C15_Witness ==
    /\ health = [status |-> 200, ok |-> TRUE]
    /\ requests[1].pc = "readJson"
    /\ requests[2].pc = "done"
    /\ requests[2].resp[1].status = 500

----------------------------------------------------------------------------
(* Properties of the page *)

\* C19: from a submit until its fetch and body read have settled, result and
\* error are both null and isLoading is true; result and error are never
\* both non-null; and once a submission has settled, by a 2xx answer, a
\* non-2xx answer, a network failure or an unparseable body, isLoading is
\* false and exactly one of result and error is non-null, result only for a
\* 2xx answer.
C19_SubmitStates ==
    /\ ui.pc \in {"fetch", "json"} =>
            (ui.result = <<>> /\ ui.error = <<>> /\ ui.isLoading)
    /\ ~(ui.result # <<>> /\ ui.error # <<>>)
    /\ (ui.pc = "idle" /\ ui.path # "none") =>
            /\ ~ui.isLoading
            /\ ui.result # <<>> <=> ui.error = <<>>
            /\ ui.result # <<>> <=> ui.path = "ok"
            /\ ui.path = "ok" => (ui.response.json /\ ui.response.status \in 200..299)
            /\ ui.path = "http" => ui.response.status \notin 200..299
            /\ ui.path = "body" => ~ui.response.json
            /\ ui.path = "network" => ui.response = NoResponse
    /\ (ui.pc = "idle" /\ ui.path = "none") => ui = [Mounted EXCEPT !.url = ui.url]

C19_Witness ==
    /\ ui.pc = "idle"
    /\ ui.path = "body"
    /\ ui.response.status = 200
    /\ ui.error = <<Plain("Unexpected token in JSON")>>
    /\ ui.result = <<>>
====
